---- MODULE Spec2Model ----
(***************************************************************************)
(* Model of scripts/preload_models.py: weight selection, legacy migration, *)
(* the download loop (conditional_download) and the synthesis of           *)
(* configs/models.yaml (update_config_file / new_config_file_contents).    *)
(*                                                                         *)
(* The filesystem is the set of files present in Model_dir, the config     *)
(* file and the temporary file next to it.  A file's content is the        *)
(* sequence of chunks written to it; the config file holds a comment       *)
(* header followed by a YAML mapping.  The YAML mapping is a function from *)
(* stanza names to stanzas, a stanza a function from field names to        *)
(* values.  The Hugging Face cache is outside the model: hf_hub_download   *)
(* either returns a cache path or raises.                                  *)
(***************************************************************************)
EXTENDS Integers, Sequences, FiniteSets, TLC

VARIABLES
    pc,          \* position of __main__
    runs,        \* number of invocations of the script so far
    counter,     \* select_datasets: number of the catalog entry being prompted
    datasets,    \* select_datasets: keys of the dict `datasets`, in order
    rejected,    \* select_datasets is in its loop after a rejected candidate plan
    models,      \* __main__: result of select_datasets
    fs,          \* files present in Model_dir
    dir_present, \* Model_dir exists
    migrated,    \* migrate_models_ckpt renamed model.ckpt in this invocation
    idx,         \* download_weight_datasets: position of the loop in models.keys()
    successful,  \* download_weight_datasets: keys of the dict `successful`, in order
    outcome,     \* what the latest conditional_download of the running loop did
    conf,        \* the file at Config_file
    tmpfile,     \* the file new_config.tmp next to Config_file
    old_conf,    \* the file at Config_file when update_config_file was called
    synth,       \* how the latest update_config_file ended
    error        \* the exception that ended the run, if any

vars == <<pc, runs, counter, datasets, rejected, models, fs, dir_present, migrated,
          idx, successful, outcome, conf, tmpfile, old_conf, synth, error>>

---------------------------------------------------------------------------
(* Bounds *)

MaxRuns == 2

---------------------------------------------------------------------------
(* Globals *)

Model_dir == "./models/ldm/stable-diffusion-v1/"

SD_Configs == "./configs/stable-diffusion"

Config_preamble == "# This file describes the alternative machine learning models"

\* os.path.join of a directory and a file name
Join(dir, file) == <<dir, file>>

\* Datasets.keys(), in the order of the dict literal
DatasetKeys ==
    << "stable-diffusion-1.5", "inpainting-1.5", "stable-diffusion-1.4",
       "waifu-diffusion-1.3", "ft-mse-improved-autoencoder-840000" >>

Datasets ==
    [ds \in {DatasetKeys[i] : i \in 1..Len(DatasetKeys)} |->
       CASE ds = "stable-diffusion-1.5" ->
              [description |-> "The newest Stable Diffusion version 1.5 weight file (4.27 GB)",
               repo_id |-> "runwayml/stable-diffusion-v1-5",
               config |-> "v1-inference.yaml",
               file |-> "v1-5-pruned-emaonly.ckpt",
               recommended |-> TRUE, width |-> 512, height |-> 512]
         [] ds = "inpainting-1.5" ->
              [description |-> "RunwayML SD 1.5 model optimized for inpainting (4.27 GB)",
               repo_id |-> "runwayml/stable-diffusion-inpainting",
               config |-> "v1-inpainting-inference.yaml",
               file |-> "sd-v1-5-inpainting.ckpt",
               recommended |-> TRUE, width |-> 512, height |-> 512]
         [] ds = "stable-diffusion-1.4" ->
              [description |-> "The original Stable Diffusion version 1.4 weight file (4.27 GB)",
               repo_id |-> "CompVis/stable-diffusion-v-1-4-original",
               config |-> "v1-inference.yaml",
               file |-> "sd-v1-4.ckpt",
               recommended |-> FALSE, width |-> 512, height |-> 512]
         [] ds = "waifu-diffusion-1.3" ->
              [description |-> "Stable Diffusion 1.4 fine tuned on anime-styled images (4.27)",
               repo_id |-> "hakurei/waifu-diffusion-v1-3",
               config |-> "v1-inference.yaml",
               file |-> "model-epoch09-float32.ckpt",
               recommended |-> FALSE, width |-> 512, height |-> 512]
         [] OTHER ->
              [description |-> "StabilityAI improved autoencoder fine-tuned for human faces (recommended; 335 MB)",
               repo_id |-> "stabilityai/sd-vae-ft-mse-original",
               config |-> "VAE",
               file |-> "vae-ft-mse-840000-ema-pruned.ckpt",
               recommended |-> TRUE, width |-> 512, height |-> 512]]

LegacyFile == "model.ckpt"

Range(s) == {s[i] : i \in 1..Len(s)}

---------------------------------------------------------------------------
(* Files and YAML *)

\* a path at which no file exists
NoFile == [exists |-> FALSE, chunks |-> <<>>]

Comment(text) == [kind |-> "comment", text |-> text]

\* OmegaConf.to_yaml: the YAML text of a mapping
to_yaml(mapping) == [kind |-> "yaml", doc |-> mapping]

\* the mapping with no keys
EmptyMapping == [k \in {} |-> k]

\* OmegaConf.load of an existing file: comments are dropped, a file without
\* a document gives the empty mapping
OmegaConfLoad(file) ==
    LET docs == SelectSeq(file.chunks, LAMBDA c : c.kind = "yaml")
    IN  IF docs = <<>> THEN EmptyMapping ELSE docs[1].doc

SetItem(d, k, v) == [f \in DOMAIN d \cup {k} |-> IF f = k THEN v ELSE d[f]]

Pop(d, k) == [f \in DOMAIN d \ {k} |-> d[f]]

---------------------------------------------------------------------------
(* Prompts *)

\* what the operator types at a prompt, by its first character
Responses == {"", "y", "n"}

yes_or_no(response, default_yes) ==
    LET r == IF response = "" THEN (IF default_yes THEN "y" ELSE "n") ELSE response
    IN  IF default_yes THEN r \notin {"n", "N"} ELSE r \in {"y", "Y"}

---------------------------------------------------------------------------
(* Config synthesis *)

\* FindVae with `vae = model` in place of `vae = Datasets[model]['file']`
RECURSIVE FindVaeName(_, _)
FindVaeName(successfully_downloaded, vae) ==
    IF successfully_downloaded = <<>> THEN vae
    ELSE LET model == Head(successfully_downloaded)
         IN  FindVaeName(Tail(successfully_downloaded),
                         IF Datasets[model].config = "VAE" THEN model ELSE vae)

\* first loop of new_config_file_contents: the file of the last VAE entry
RECURSIVE FindVae(_, _)
FindVae(successfully_downloaded, vae) ==
    IF successfully_downloaded = <<>> THEN vae
    ELSE LET model == Head(successfully_downloaded)
         IN  FindVae(Tail(successfully_downloaded),
                     IF Datasets[model].config = "VAE" THEN Datasets[model].file ELSE vae)

\* the assignments of description, weights, config, width and height
ManagedFields(stanza, model) ==
    LET s1 == SetItem(stanza, "description", Datasets[model].description)
        s2 == SetItem(s1, "weights", Join(Model_dir, Datasets[model].file))
        s3 == SetItem(s2, "config", Join(SD_Configs, Datasets[model].config))
        s4 == SetItem(s3, "width", Datasets[model].width)
    IN  SetItem(s4, "height", Datasets[model].height)

\* `if vae: stanza['vae'] = ...`
WithVae(stanza, vae) ==
    IF vae # "None" THEN SetItem(stanza, "vae", Join(Model_dir, vae)) ELSE stanza

\* `if not default_selected: stanza['default'] = True`
WithDefault(stanza, default_selected) ==
    IF ~default_selected THEN SetItem(stanza, "default", TRUE) ELSE stanza

\* NewStanza without stanza.pop('default', None)
NewStanzaKeepDefault(c, model, vae, default_selected) ==
    LET stanza == IF model \in DOMAIN c THEN c[model] ELSE EmptyMapping
    IN  WithDefault(WithVae(ManagedFields(stanza, model), vae), default_selected)

\* NewStanza with `stanza = { }` whether or not the model is in conf
NewStanzaFresh(c, model, vae, default_selected) ==
    WithDefault(WithVae(Pop(ManagedFields(EmptyMapping, model), "default"), vae),
                default_selected)

\* body of the second loop of new_config_file_contents for one model
NewStanza(c, model, vae, default_selected) ==
    LET stanza == IF model \in DOMAIN c THEN c[model] ELSE EmptyMapping
    IN  WithDefault(WithVae(Pop(ManagedFields(stanza, model), "default"), vae),
                    default_selected)

\* second loop of new_config_file_contents
RECURSIVE MergeStanzas(_, _, _, _)
MergeStanzas(c, successfully_downloaded, vae, default_selected) ==
    IF successfully_downloaded = <<>> THEN c
    ELSE LET model == Head(successfully_downloaded)
         IN  IF Datasets[model].config = "VAE"
             THEN MergeStanzas(c, Tail(successfully_downloaded), vae, default_selected)
             ELSE MergeStanzas(SetItem(c, model, NewStanza(c, model, vae, default_selected)),
                               Tail(successfully_downloaded), vae, TRUE)

\* new_config_file_contents, given the file at Config_file (which exists)
new_config_file_contents(file, successfully_downloaded) ==
    to_yaml(MergeStanzas(OmegaConfLoad(file), successfully_downloaded,
                         FindVae(successfully_downloaded, "None"), FALSE))

---------------------------------------------------------------------------
(* State at the start of the first invocation *)

\* configs/models.yaml as shipped: the 1.4 model is the default
ShippedConfig ==
    [exists |-> TRUE,
     chunks |-> << Comment("# shipped models.yaml"),
                   to_yaml("stable-diffusion-1.4" :>
                       [description |-> "Stable Diffusion inference model version 1.4",
                        weights |-> Join("./models/ldm/stable-diffusion-v1/", "model.ckpt"),
                        config |-> Join("./configs/stable-diffusion", "v1-inference.yaml"),
                        width |-> 512, height |-> 512, default |-> TRUE]) >>]

\* a config edited by the operator: custom fields, a hand-installed model
EditedConfig ==
    [exists |-> TRUE,
     chunks |-> << Comment("# my models"),
                   to_yaml(("inpainting-1.5" :>
                       [description |-> "my inpainting",
                        weights |-> Join("/data", "inpaint.ckpt"),
                        config |-> Join("./configs/stable-diffusion", "v1-inpainting-inference.yaml"),
                        width |-> 256, height |-> 256,
                        vae |-> Join("/data", "my-vae.ckpt"),
                        custom |-> "operator note"])
                    @@ ("my-model" :>
                       [description |-> "hand-installed model",
                        weights |-> Join("/data", "mine.ckpt"),
                        config |-> Join("./configs/stable-diffusion", "v1-inference.yaml"),
                        width |-> 512, height |-> 512])) >>]

\* an existing file that holds no document
BlankConfig == [exists |-> TRUE, chunks |-> <<>>]

InitConfigs == {NoFile, BlankConfig, ShippedConfig, EditedConfig}

NoPlan == [is_none |-> TRUE, keys |-> <<>>]

\* the variables of one invocation, as the interpreter starts
RunStart ==
    /\ pc = "start"
    /\ counter = 1
    /\ datasets = <<>>
    /\ rejected = FALSE
    /\ models = NoPlan
    /\ migrated = FALSE
    /\ idx = 1
    /\ successful = <<>>
    /\ outcome = "none"
    /\ synth = "none"
    /\ error = "none"

\* one invocation, on a filesystem that may hold the legacy model.ckpt and
\* an autoencoder fetched earlier, with any of the config files above
Init ==
    /\ RunStart
    /\ runs = 1
    /\ fs \in SUBSET {LegacyFile, Datasets["ft-mse-improved-autoencoder-840000"].file}
    /\ dir_present = (fs # {})
    /\ conf \in InitConfigs
    /\ tmpfile = NoFile
    /\ old_conf = conf

\* the first of several invocations: an installation of the previous
\* release, which holds the legacy model.ckpt and the shipped config
InitFresh ==
    /\ RunStart
    /\ runs = 1
    /\ fs = {LegacyFile}
    /\ dir_present = TRUE
    /\ conf = ShippedConfig
    /\ tmpfile = NoFile
    /\ old_conf = conf

---------------------------------------------------------------------------
(* __main__ up to the download phase *)

RunLocals == <<counter, datasets, rejected, models, migrated, idx, successful, outcome, old_conf, synth, error>>

Files == <<fs, dir_present, conf, tmpfile>>

\* user_wants_to_download_weights
WantsToDownload ==
    /\ pc = "start"
    /\ \E response \in Responses :
          pc' = IF yes_or_no(response, TRUE) THEN "select" ELSE "support"
    /\ UNCHANGED <<runs, RunLocals, Files>>

\* select_datasets, inner for loop: the 'Download?' prompt of catalog entry
\* number `counter`
select_prompt ==
    /\ pc = "select"
    /\ counter <= Len(DatasetKeys)
    /\ \E response \in Responses :
          LET ds == DatasetKeys[counter]
          IN  datasets' = IF yes_or_no(response, Datasets[ds].recommended)
                          THEN Append(datasets, ds)
                          ELSE datasets
    /\ counter' = counter + 1
    /\ UNCHANGED <<pc, runs, rejected, models, migrated, idx, successful, outcome,
                   old_conf, synth, error, Files>>

\* select_datasets, after the for loop: 'Ok to download?' and, if not,
\* 'Change your selection?'; the while loop starts over or the call returns
select_datasets ==
    /\ pc = "select"
    /\ counter > Len(DatasetKeys)
    /\ \E ok, change \in Responses :
          LET ok_to_download == yes_or_no(ok, TRUE)
              done == ok_to_download \/ ~yes_or_no(change, TRUE)
          IN  IF ~done
              THEN /\ rejected' = TRUE
                   /\ UNCHANGED <<pc, models>>
              ELSE /\ models' = IF ok_to_download
                                THEN [is_none |-> FALSE, keys |-> datasets]
                                ELSE NoPlan
                   /\ pc' = IF ok_to_download THEN "auth" ELSE "quit"
                   /\ rejected' = FALSE
    /\ datasets' = <<>>
    /\ counter' = 1
    /\ UNCHANGED <<runs, migrated, idx, successful, outcome, old_conf, synth, error, Files>>

\* models is None: the 'Quit?' prompt
QuitPrompt ==
    /\ pc = "quit"
    /\ \E response \in Responses :
          pc' = IF yes_or_no(response, FALSE) THEN "exited" ELSE "auth"
    /\ UNCHANGED <<runs, RunLocals, Files>>

\* authenticate: obtains the access token
authenticate ==
    /\ pc = "auth"
    /\ pc' = "download"
    /\ UNCHANGED <<runs, RunLocals, Files>>

---------------------------------------------------------------------------
(* download_weight_datasets *)

\* where download_weight_datasets stands once i-1 keys of the plan are done
AfterItem(plan, i) == IF i > Len(plan.keys) THEN "update" ELSE "loop"

\* where the loop starts: models.keys() is evaluated first
LoopEntry(plan) == IF plan.is_none THEN "loop" ELSE AfterItem(plan, 1)

\* migrate_models_ckpt, called on entry to download_weight_datasets.  The
\* os.rename is not inside any try block: its OSError leaves __main__.
migrate_models_ckpt ==
    /\ pc = "download"
    /\ idx' = 1
    /\ successful' = <<>>
    /\ IF LegacyFile \notin fs
       THEN /\ pc' = LoopEntry(models)
            /\ UNCHANGED <<fs, migrated, error>>
       ELSE \E response \in Responses, renamed \in BOOLEAN :
               IF ~yes_or_no(response, TRUE)
               THEN /\ pc' = LoopEntry(models)
                    /\ UNCHANGED <<fs, migrated, error>>
               ELSE IF renamed
               THEN /\ fs' = (fs \ {LegacyFile}) \cup {Datasets["stable-diffusion-1.4"].file}
                    /\ migrated' = TRUE
                    /\ pc' = LoopEntry(models)
                    /\ UNCHANGED error
               ELSE /\ pc' = "crashed"
                    /\ error' = "OSError"
                    /\ UNCHANGED <<fs, migrated>>
    /\ UNCHANGED <<runs, counter, datasets, rejected, models, outcome, old_conf, synth,
                   dir_present, conf, tmpfile>>

\* `for mod in models.keys()` when models is None
keys_of_None ==
    /\ pc = "loop"
    /\ models.is_none
    /\ pc' = "crashed"
    /\ error' = "AttributeError"
    /\ UNCHANGED <<runs, counter, datasets, rejected, models, migrated, idx, successful,
                   outcome, old_conf, synth, Files>>

\* what can happen to a fetch whose destination does not exist yet
FetchEvents == {"ok", "makedirs_error", "hub_error", "link_error"}

\* conditional_download with hf_hub_download outside the try block
ConditionalDownloadNoTry(model_name, files, dirp, event) ==
    IF model_name \in files
    THEN [ret |-> "True", fs |-> files, dir |-> dirp, outcome |-> "exists"]
    ELSE IF event = "makedirs_error"
    THEN [ret |-> "raise", fs |-> files, dir |-> dirp, outcome |-> "makedirs_failed"]
    ELSE IF event = "hub_error"
    THEN [ret |-> "raise", fs |-> files, dir |-> TRUE, outcome |-> "remote_failed"]
    ELSE IF event = "link_error"
    THEN [ret |-> "False", fs |-> files, dir |-> TRUE, outcome |-> "link_failed"]
    ELSE [ret |-> "True", fs |-> files \cup {model_name}, dir |-> TRUE,
          outcome |-> "downloaded"]

\* conditional_download without the os.path.exists test
ConditionalDownloadNoExists(model_name, files, dirp, event) ==
    IF event = "makedirs_error"
    THEN [ret |-> "raise", fs |-> files, dir |-> dirp, outcome |-> "makedirs_failed"]
    ELSE IF event = "hub_error"
    THEN [ret |-> "False", fs |-> files, dir |-> TRUE, outcome |-> "remote_failed"]
    ELSE IF event = "link_error"
    THEN [ret |-> "False", fs |-> files, dir |-> TRUE, outcome |-> "link_failed"]
    ELSE [ret |-> "True", fs |-> files \cup {model_name}, dir |-> TRUE,
          outcome |-> "downloaded"]

\* conditional_download of model_name with the files `files` in Model_dir.
\* ret is what the call returns, or "raise" when an exception leaves it.
conditional_download(model_name, files, dirp, event) ==
    IF model_name \in files
    THEN [ret |-> "True", fs |-> files, dir |-> dirp, outcome |-> "exists"]
    ELSE IF event = "makedirs_error"
    THEN [ret |-> "raise", fs |-> files, dir |-> dirp, outcome |-> "makedirs_failed"]
    ELSE IF event = "hub_error"
    THEN [ret |-> "False", fs |-> files, dir |-> TRUE, outcome |-> "remote_failed"]
    ELSE IF event = "link_error"
    THEN [ret |-> "False", fs |-> files, dir |-> TRUE, outcome |-> "link_failed"]
    ELSE [ret |-> "True", fs |-> files \cup {model_name}, dir |-> TRUE,
          outcome |-> "downloaded"]

\* one iteration of the loop of download_weight_datasets
download_weight_datasets ==
    /\ pc = "loop"
    /\ ~models.is_none
    /\ idx <= Len(models.keys)
    /\ \E event \in FetchEvents :
          \* os.makedirs(exist_ok=True) of an existing directory succeeds
          /\ (event = "makedirs_error" => ~dir_present)
          /\ LET mod == models.keys[idx]
                 r == conditional_download(Datasets[mod].file, fs, dir_present, event)
             IN  /\ fs' = r.fs
                 /\ dir_present' = r.dir
                 /\ outcome' = r.outcome
                 /\ IF r.ret = "raise"
                    THEN /\ pc' = "crashed"
                         /\ error' = "OSError"
                         /\ UNCHANGED <<idx, successful>>
                    ELSE /\ successful' = IF r.ret = "True"
                                          THEN Append(successful, mod)
                                          ELSE successful
                         /\ idx' = idx + 1
                         /\ pc' = AfterItem(models, idx + 1)
                         /\ UNCHANGED error
    /\ UNCHANGED <<runs, counter, datasets, rejected, models, migrated, old_conf, synth,
                   conf, tmpfile>>

---------------------------------------------------------------------------
(* update_config_file *)

\* the steps of update_config_file at which an exception can be raised
FailPoints == {"load", "build", "open", "write_preamble", "write_yaml", "rename"}

\* the file a `with open(path, 'w')` block leaves at its path when the block
\* ends at step `fail` (or completes, fail = "none"); `before` is the file
\* that was there
WrittenFile(before, yaml, fail) ==
    IF fail \in {"load", "build", "open"} THEN before
    ELSE IF fail = "write_preamble" THEN [exists |-> TRUE, chunks |-> <<>>]
    ELSE IF fail = "write_yaml" THEN [exists |-> TRUE, chunks |-> <<Comment(Config_preamble)>>]
    ELSE [exists |-> TRUE, chunks |-> <<Comment(Config_preamble), yaml>>]

\* UpdateFiles with `open(Config_file, 'w')` and no rename
UpdateFilesInPlace(config, tmp, successfully_downloaded, fail) ==
    LET yaml == IF fail = "load" THEN to_yaml(EmptyMapping)
                ELSE new_config_file_contents(config, successfully_downloaded)
    IN  [tmp |-> tmp, config |-> WrittenFile(config, yaml, fail)]

\* the files at new_config.tmp and at Config_file after update_config_file
\* ended at step `fail`
UpdateFiles(config, tmp, successfully_downloaded, fail) ==
    LET yaml == IF fail = "load" THEN to_yaml(EmptyMapping)
                ELSE new_config_file_contents(config, successfully_downloaded)
        written == WrittenFile(tmp, yaml, fail)
    IN  IF fail = "none"
        THEN [tmp |-> NoFile, config |-> written]         \* os.rename(tmpfile, Config_file)
        ELSE [tmp |-> written, config |-> config]

\* update_config_file(successfully_downloaded): an Exception raised at step
\* `fail` is caught and reported, and __main__ goes on
update_config_file ==
    /\ pc = "update"
    /\ \E fail \in FailPoints \cup {"none"} :
          \* OmegaConf.load of a missing file raises FileNotFoundError
          /\ (~conf.exists => fail = "load")
          /\ LET r == UpdateFiles(conf, tmpfile, successful, fail)
             IN  /\ conf' = r.config
                 /\ tmpfile' = r.tmp
          /\ old_conf' = conf
          /\ synth' = IF fail = "none" THEN "written" ELSE fail
          /\ pc' = "support"
          /\ outcome' = "none"
    /\ UNCHANGED <<runs, counter, datasets, rejected, models, migrated, idx, successful,
                   error, fs, dir_present>>

\* the support models (bert, kornia, clip, gfpgan, codeformer, clipseg,
\* safety checker) and the postscript
download_support_models ==
    /\ pc = "support"
    /\ pc' = "done"
    /\ UNCHANGED <<runs, RunLocals, Files>>

\* KeyboardInterrupt at a prompt: "Goodbye! Come back soon."
KeyboardInterrupt ==
    /\ pc \in {"start", "select", "quit", "auth"}
    /\ pc' = "goodbye"
    /\ UNCHANGED <<runs, RunLocals, Files>>

\* the script is invoked again on the same filesystem
Invoke ==
    /\ pc \in {"done", "exited", "goodbye", "crashed"}
    /\ runs < MaxRuns
    /\ runs' = runs + 1
    /\ pc' = "start"
    /\ counter' = 1
    /\ datasets' = <<>>
    /\ rejected' = FALSE
    /\ models' = NoPlan
    /\ migrated' = FALSE
    /\ idx' = 1
    /\ successful' = <<>>
    /\ outcome' = "none"
    /\ old_conf' = conf
    /\ synth' = "none"
    /\ error' = "none"
    /\ UNCHANGED Files

Next ==
    \/ WantsToDownload
    \/ select_prompt
    \/ select_datasets
    \/ QuitPrompt
    \/ authenticate
    \/ migrate_models_ckpt
    \/ keys_of_None
    \/ download_weight_datasets
    \/ update_config_file
    \/ download_support_models
    \/ KeyboardInterrupt

\* one invocation of the script
Spec == Init /\ [][Next]_vars

NextRerun ==
    \/ Next
    \/ Invoke

\* up to MaxRuns invocations of the script on the same filesystem
SpecRerun == InitFresh /\ [][NextRerun]_vars

---------------------------------------------------------------------------
(* Vocabulary of the properties *)

IsModel(ds) == Datasets[ds].config # "VAE"

\* the MODEL-kind entries of a sequence of catalog keys
ModelKeys(keys) == SelectSeq(keys, IsModel)

\* the mapping in the config file now, and when update_config_file was called
NewMapping == OmegaConfLoad(conf)

OldMapping == OmegaConfLoad(old_conf)

HasDefault(stanza) == "default" \in DOMAIN stanza /\ stanza["default"] = TRUE

Defaults(mapping) == {k \in DOMAIN mapping : HasDefault(mapping[k])}

\* update_config_file has run in this invocation and renamed the new file
\* over Config_file
Synthesized == synth = "written"

\* the success set holds an AUXILIARY_DECODER artifact
VaeFetched == \E k \in Range(successful) : ~IsModel(k)

VaePath == Join(Model_dir, Datasets["ft-mse-improved-autoencoder-840000"].file)

\* the plan entries whose file is in Model_dir, in plan order
PresentKeys == SelectSeq(models.keys, LAMBDA k : Datasets[k].file \in fs)

\* the key whose fetch conditional_download is about to run
FetchPending == pc = "loop" /\ ~models.is_none /\ idx <= Len(models.keys)

---------------------------------------------------------------------------
(* C1 *)

\* C1: a step changes the file at Config_file only if it is an
\* update_config_file that completed its rename; an update_config_file that
\* fails at load, build, open, a write or the rename leaves the file at
\* Config_file exactly as it was.
C1_AtomicConfigWrite ==
    [][ /\ (conf' # conf => pc = "update" /\ synth' = "written")
        /\ (pc = "update" /\ synth' \in FailPoints => conf' = conf) ]_vars

\* update_config_file failed while writing the YAML: the temporary file holds
\* the preamble only, the existing config file is as before
C1_Witness ==
    /\ synth = "write_yaml"
    /\ tmpfile = [exists |-> TRUE, chunks |-> <<Comment(Config_preamble)>>]
    /\ conf.exists
    /\ conf = old_conf
    /\ ModelKeys(successful) # <<>>

---------------------------------------------------------------------------
(* C2 *)

\* C2 (as claimed): after a synthesis run the config has at most one stanza
\* with default = true, and exactly one when the success set holds a
\* MODEL-kind artifact.
C2_AtMostOneDefault ==
    Synthesized =>
        /\ Cardinality(Defaults(NewMapping)) <= 1
        /\ (ModelKeys(successful) # <<>> => Cardinality(Defaults(NewMapping)) = 1)

---------------------------------------------------------------------------
(* C3 *)

---------------------------------------------------------------------------
(* C4 *)

\* C4: a fetch that fails at the remote store neither ends the run nor
\* enters the success set, and the loop goes on; when the loop is over every
\* plan key has been attempted and the success set is exactly the plan keys
\* whose file is in Model_dir; the synthesis that follows writes the stanzas
\* of the MODEL keys of that set and leaves the stanza of every other plan
\* key as it was.
C4_PartialFailureIsolation ==
    /\ outcome = "remote_failed" =>
          /\ pc \in {"loop", "update"}
          /\ error = "none"
          /\ models.keys[idx - 1] \notin Range(successful)
          /\ Datasets[models.keys[idx - 1]].file \notin fs
    /\ pc = "update" =>
          /\ idx = Len(models.keys) + 1
          /\ successful = PresentKeys
    /\ Synthesized =>
          /\ successful = PresentKeys
          /\ \A k \in Range(models.keys) :
                IF k \in Range(successful)
                THEN IsModel(k) =>
                        /\ k \in DOMAIN NewMapping
                        /\ NewMapping[k]["weights"] = Join(Model_dir, Datasets[k].file)
                ELSE /\ k \in DOMAIN NewMapping <=> k \in DOMAIN OldMapping
                     /\ k \in DOMAIN NewMapping => NewMapping[k] = OldMapping[k]

\* a plan of three: the first was fetched, the second has just failed at the
\* remote store, and the loop stands before the third
C4_Witness ==
    /\ pc = "loop"
    /\ Len(models.keys) = 3
    /\ idx = 3
    /\ outcome = "remote_failed"
    /\ successful = <<models.keys[1]>>

---------------------------------------------------------------------------
(* C5 *)

\* C5 (as claimed): no OSError of the legacy rename or of a local I/O step
\* of a fetch ends the run.
C5_LocalErrorsIsolated == ~(pc = "crashed" /\ error = "OSError")

---------------------------------------------------------------------------
(* C6 *)

\* C6: a fetch called while its destination file exists returns success as
\* "exists", without a call to the remote store and without any change to
\* Model_dir, the config file or the temporary file; and the rename of
\* model.ckpt puts the 1.4 file in place before the loop starts, so that a
\* fetch of stable-diffusion-1.4 in an invocation that migrated finds it.
C6_FetchIdempotent ==
    [][ /\ (FetchPending /\ Datasets[models.keys[idx]].file \in fs) =>
              /\ outcome' = "exists"
              /\ successful' = Append(successful, models.keys[idx])
              /\ pc' \in {"loop", "update"}
              /\ idx' = idx + 1
              /\ UNCHANGED <<fs, dir_present, conf, tmpfile, error>>
        /\ (pc = "download" /\ migrated') =>
              /\ Datasets["stable-diffusion-1.4"].file \in fs'
              /\ idx' = 1
              /\ successful' = <<>>
        /\ (FetchPending /\ migrated /\ models.keys[idx] = "stable-diffusion-1.4") =>
              outcome' = "exists" ]_vars

\* second invocation, plan of the 1.4 model and the autoencoder: model.ckpt
\* was renamed in this invocation and the 1.4 fetch found the file; the
\* autoencoder, fetched by the first invocation, has just been found too
C6_Witness ==
    /\ runs = 2
    /\ migrated
    /\ models.keys = <<"stable-diffusion-1.4", "ft-mse-improved-autoencoder-840000">>
    /\ pc = "update"
    /\ outcome = "exists"
    /\ successful = models.keys
    /\ fs = {Datasets[k].file : k \in Range(models.keys)}

---------------------------------------------------------------------------
(* C7 *)

\* the fields new_config_file_contents assigns or removes in this run
ManagedNames ==
    {"description", "weights", "config", "width", "height", "default"}
        \cup (IF VaeFetched THEN {"vae"} ELSE {})

\* C7: in the stanza of a model of the success set that existed before the
\* run, every field other than the managed ones is present with its old
\* value, and the run adds no field other than the managed ones.
C7_UnmanagedFieldsPreserved ==
    Synthesized =>
        \A k \in Range(ModelKeys(successful)) :
            k \in DOMAIN OldMapping =>
                /\ \A f \in DOMAIN OldMapping[k] \ ManagedNames :
                      /\ f \in DOMAIN NewMapping[k]
                      /\ NewMapping[k][f] = OldMapping[k][f]
                /\ DOMAIN NewMapping[k] \ ManagedNames \subseteq DOMAIN OldMapping[k]

\* the operator's stanza of inpainting-1.5 was rewritten: new description,
\* same custom field
C7_Witness ==
    /\ Synthesized
    /\ "inpainting-1.5" \in Range(successful)
    /\ "inpainting-1.5" \in DOMAIN OldMapping
    /\ "custom" \in DOMAIN OldMapping["inpainting-1.5"]
    /\ NewMapping["inpainting-1.5"]["custom"] = "operator note"
    /\ NewMapping["inpainting-1.5"]["description"] # OldMapping["inpainting-1.5"]["description"]

---------------------------------------------------------------------------
(* C8 *)

\* C8 (as claimed): after synthesis the stanza of every MODEL-kind key of
\* the success set has vae = the autoencoder's local path if the success set
\* holds the autoencoder, and no vae field otherwise.
C8_VaeFieldAsClaimed ==
    Synthesized =>
        \A k \in Range(ModelKeys(successful)) :
            IF VaeFetched
            THEN "vae" \in DOMAIN NewMapping[k] /\ NewMapping[k]["vae"] = VaePath
            ELSE "vae" \notin DOMAIN NewMapping[k]

\* C8 (amended): after synthesis the stanza of every MODEL-kind key of the
\* success set has vae = the autoencoder's local path if the success set
\* holds the autoencoder; otherwise the run leaves the vae field alone: a
\* new stanza and an existing stanza without vae have none, an existing
\* stanza with a vae field keeps its value.
C8_VaeField ==
    Synthesized =>
        \A k \in Range(ModelKeys(successful)) :
            IF VaeFetched
            THEN "vae" \in DOMAIN NewMapping[k] /\ NewMapping[k]["vae"] = VaePath
            ELSE LET had == k \in DOMAIN OldMapping /\ "vae" \in DOMAIN OldMapping[k]
                 IN  /\ "vae" \in DOMAIN NewMapping[k] <=> had
                     /\ had => NewMapping[k]["vae"] = OldMapping[k]["vae"]

\* the autoencoder and two models are in the success set; both stanzas point
\* to the autoencoder, one of them had another vae before
C8_Witness ==
    /\ Synthesized
    /\ VaeFetched
    /\ Len(ModelKeys(successful)) = 2
    /\ \A k \in Range(ModelKeys(successful)) : NewMapping[k]["vae"] = VaePath
    /\ \E k \in Range(ModelKeys(successful)) :
          /\ k \in DOMAIN OldMapping
          /\ "vae" \in DOMAIN OldMapping[k]
          /\ OldMapping[k]["vae"] # VaePath

---------------------------------------------------------------------------
(* C9 *)

\* C9 (as claimed): when update_config_file is called with no file at
\* Config_file and a success set that holds a MODEL-kind key, the load is not
\* an error, and a completed run leaves a config file with exactly one
\* stanza per such key.
C9_AbsentConfigStartsEmpty ==
    (synth # "none" /\ ~old_conf.exists /\ ModelKeys(successful) # <<>>) =>
        /\ synth # "load"
        /\ (Synthesized =>
               /\ conf.exists
               /\ DOMAIN NewMapping = Range(ModelKeys(successful)))

---------------------------------------------------------------------------
(* C10 *)

\* C10 (as claimed): download_weight_datasets is entered only with a plan,
\* every key of which is in the catalog; after the operator rejected the plan
\* and declined to change it (models is None) no fetch is attempted, the
\* config file is not written, and the run does not end in an unhandled
\* exception.
C10_ConfirmedPlanOnly ==
    /\ pc \in {"download", "loop", "update"} =>
          /\ ~models.is_none
          /\ Range(models.keys) \subseteq DOMAIN Datasets
    /\ (models.is_none /\ pc \notin {"start", "select"}) =>
          /\ outcome = "none"
          /\ synth = "none"
          /\ pc # "crashed"

====
